---- MODULE Spec2Model ----
(***************************************************************************)
(* Railway data extractor: the Overpass query client (queryOverpass), the  *)
(* tile planner (getTiles), the railway collector (extractRailways) and    *)
(* the station collector (extractStations), in the two variants of the     *)
(* repository: src/extract.js ("extract") and src/unnamed/part_000         *)
(* ("part000").                                                            *)
(***************************************************************************)
EXTENDS Integers, Sequences, FiniteSets, TLC

VARIABLES
    variant,      \* which source file runs: "extract" or "part000"
    \* ---- queryOverpass ----
    endpointIdx,  \* index into OVERPASS_ENDPOINTS of the outer for loop (0 = primary)
    attempt,      \* the inner for loop's counter
    qpc,          \* "fetch" | "await" | "body" | "sleep" | "done" | "threw"
    result,       \* "none" while running, "null" or the parsed document once returned
    trace,        \* every request, response and sleep of the call, in order
    timer,        \* the abort timer of the attempt: "none" | "armed" | "cleared" | "fired"
    \* ---- getTiles ----
    bbox,         \* the box passed to getTiles: <<south, west, north, east>>
    tileSize,     \* part_000: the tileSize argument; extract.js: TILE_SIZE_DEG
    tiles,        \* the tiles returned
    tpc,          \* "call" | "returned"
    \* ---- extractRailways ----
    country,      \* the country being extracted
    i,            \* the tile loop's counter
    rpc,          \* "query" | "elements" | "sleep" | "done" | "threw"
    sleepMs,      \* the inter-tile sleep in progress, in ms (0: none)
    tileKind,     \* what queryOverpass returned for the tile: "null", "noElements", "elements"
    elemCount,    \* how many of the tile's elements the inner loop has taken
    allWays,      \* the segments collected
    seenIds,      \* the ids seen
    queried,      \* the tile indices queryOverpass was called for, in order
    skipped,      \* the tile indices for which it returned no data
    returned,     \* per id, what the tiles returned: its first occurrence, and how often
    slept,        \* the tile indices after which an inter-tile sleep began, in order
    call,         \* "first" in the first extractRailways call of the run, "later" after it
    emitted,      \* the ids of the segments the earlier calls of the run returned
    \* ---- extractStations ----
    spc,          \* "towns" | "sleep" | "query" | "elements" | "done"
    towns,        \* extract.js: the towns of the town query
    stationMap,   \* the Map, as its entries [key, value] in insertion order
    stationCount, \* how many of the response's elements the loop has taken
    stations,     \* the list returned
    namedFed,     \* per 4-decimal bucket, how many named elements came (2: two or more)
    keptFed,      \* per 4-decimal bucket, how many of them the town filter let through
    cand,         \* per 4-decimal bucket, the ids of the first candidate and of the first matching one
    lastUnnamed,  \* the last element without a name of its own (id 0: none), and what it was stored as
    \* ---- main ----
    mpc,          \* "loop" | "railways" | "stations" | "finish" | "summary" | "done" | "crashed"
    mode,         \* part_000: 'all' | 'railways' | 'stations'
    keys,         \* the country keys requested, in order
    kidx,         \* how many of them the loop has taken
    entry,        \* the manifest entry of the country in hand (extract.js: its results so far)
    manifest,     \* manifest.countries
    prev,         \* manifest.countries as read at the start of the run
    mlog,         \* what the run did: calls, files written, countries attempted and failed
    written,      \* the manifest files written, in order
    summary       \* the summary lines printed

qvars == <<endpointIdx, attempt, qpc, result, trace, timer>>

tvars == <<bbox, tileSize, tiles, tpc>>

rvars ==
    <<country, i, rpc, sleepMs, tileKind, elemCount, allWays, seenIds, queried, skipped, returned,
      slept, call, emitted>>

mvars == <<mpc, mode, keys, kidx, entry, manifest, prev, mlog, written, summary>>

svars ==
    <<spc, towns, stationMap, stationCount, stations, namedFed, keptFed, cand, lastUnnamed>>

vars == <<variant, qvars, tvars, rvars, svars, mvars>>

Variants == {"extract", "part000"}

(***************************************************************************)
(* queryOverpass                                                           *)
(***************************************************************************)

\* OVERPASS_ENDPOINTS, in list order: 0 is the primary, 1 the kumi mirror.
OVERPASS_ENDPOINTS == <<"primary", "mirror">>

NumEndpoints == Len(OVERPASS_ENDPOINTS)

MAX_RETRIES == 3

\* What the remote side can answer: HTTP statuses of every class the code tells apart.
Statuses == {200, 404, 429, 500, 503, 504}

\* Response bodies: two JSON documents and one body resp.json() rejects.
JsonDocs == {"docA", "docB"}

Bodies == JsonDocs \cup {"garbage"}

\* fetch rejects: a transport failure (TypeError) or the abort timer (AbortError).
RejectNames == {"TypeError", "AbortError"}

\* resp.ok
Ok(status) == status >= 200 /\ status <= 299

\* resp.json(): the parsed document, or "SyntaxError" when the body does not parse.
ParseJson(body) == IF body \in JsonDocs THEN body ELSE "SyntaxError"

Backoff_ZeroBased(v, k) == IF v = "extract" THEN 10000 * k ELSE 15000 * k

\* The 429 backoff: 10000 * (attempt + 1) in extract.js.
Backoff_extract(k) == 10000 * (k + 1)

\* The 429 backoff: 15000 * (attempt + 1) in part_000.
Backoff_part000(k) == 15000 * (k + 1)

\* const wait = <base> * (attempt + 1)
Backoff(v, k) == IF v = "extract" THEN Backoff_extract(k) ELSE Backoff_part000(k)

\* extract.js: which branch of the status chain a response takes.
Disposition_extract(status) ==
    IF status = 429 THEN "backoff"
    ELSE IF status = 504 \/ status = 503 THEN "break"
    ELSE IF ~Ok(status) THEN "continue"
    ELSE "parse"

\* part_000: which branch of the status chain a response takes.
Disposition_part000(status) ==
    IF status = 429 THEN "backoff"
    ELSE IF status >= 500 THEN "break"
    ELSE IF ~Ok(status) THEN "sleepContinue"
    ELSE "parse"

Disposition(v, status) ==
    IF v = "extract" THEN Disposition_extract(status) ELSE Disposition_part000(status)

\* A position of the call: where control is, and the sleep in progress (0: none).
Pos(pc, ep, k, ms, res) == [pc |-> pc, ep |-> ep, attempt |-> k, ms |-> ms, result |-> res]

\* `break`: leave the inner loop; the outer loop takes the next endpoint, and
\* falls out to `return null` after the last one.
AfterBreak(ep) ==
    IF ep + 1 < NumEndpoints
    THEN Pos("fetch", ep + 1, 0, 0, "none")
    ELSE Pos("done", ep + 1, 0, 0, "null")

AfterContinue_SkipsBound(ep, k) == Pos("fetch", ep, k + 1, 0, "none")

\* `continue` (or the end of the loop body): attempt++, then the loop test.
AfterContinue(ep, k) ==
    IF k + 1 < MAX_RETRIES THEN Pos("fetch", ep, k + 1, 0, "none") ELSE AfterBreak(ep)

\* A sleep that is followed by `continue`.
SleepThenContinue(ep, k, ms) == Pos("sleep", ep, k, ms, "none")

OnResponse_429Switches(v, ep, k, status, body) ==
    IF status = 429 THEN AfterBreak(ep)
    ELSE IF Disposition(v, status) = "break" THEN AfterBreak(ep)
    ELSE IF Disposition(v, status) = "continue" THEN AfterContinue(ep, k)
    ELSE IF Disposition(v, status) = "sleepContinue" THEN SleepThenContinue(ep, k, 5000)
    ELSE IF ParseJson(body) = "SyntaxError" THEN AfterContinue(ep, k)
    ELSE Pos("done", ep, k, 0, ParseJson(body))

OnResponse_KeepsGoing(v, ep, k, status, body) ==
    IF Disposition(v, status) = "backoff" THEN SleepThenContinue(ep, k, Backoff(v, k))
    ELSE IF Disposition(v, status) = "break" THEN AfterBreak(ep)
    ELSE AfterContinue(ep, k)

\* The catch block. extract.js only logs, and the loop goes on to attempt + 1;
\* part_000 breaks on the last attempt and otherwise sleeps 5000 ms first.
OnException(v, ep, k) ==
    IF v = "extract" THEN AfterContinue(ep, k)
    ELSE IF k = MAX_RETRIES - 1 THEN AfterBreak(ep)
    ELSE SleepThenContinue(ep, k, 5000)

\* The try block after fetch resolved with `status` and `body`.
OnResponse(v, ep, k, status, body) ==
    IF Disposition(v, status) = "backoff" THEN SleepThenContinue(ep, k, Backoff(v, k))
    ELSE IF Disposition(v, status) = "break" THEN AfterBreak(ep)
    ELSE IF Disposition(v, status) = "continue" THEN AfterContinue(ep, k)
    ELSE IF Disposition(v, status) = "sleepContinue" THEN SleepThenContinue(ep, k, 5000)
    ELSE IF ParseJson(body) = "SyntaxError" THEN OnException(v, ep, k)
    ELSE Pos("done", ep, k, 0, ParseJson(body))

\* An event of the call: num is a response's status or a sleep's milliseconds,
\* str a parsed document or an error's name.
Event(ev, ep, k, num, str) ==
    [ev |-> ev, endpoint |-> ep, attempt |-> k, num |-> num, str |-> str]

\* Move to position p, logging the events es; a sleep is logged as it starts.
QGoto(p, es) ==
    /\ qpc' = p.pc
    /\ endpointIdx' = p.ep
    /\ attempt' = p.attempt
    /\ result' = p.result
    /\ trace' = IF p.pc = "sleep"
                THEN trace \o es \o <<Event("sleep", p.ep, p.attempt, p.ms, "")>>
                ELSE trace \o es

QInit ==
    /\ endpointIdx = 0
    /\ attempt = 0
    /\ qpc = "fetch"
    /\ result = "none"
    /\ trace = <<>>
    /\ timer = "none"

\* setTimeout(() => controller.abort(), ...), then
\* fetch(endpoint, {method: 'POST', body: query, signal}): the request goes out.
Fetch ==
    /\ qpc = "fetch"
    /\ qpc' = "await"
    /\ timer' = "armed"
    /\ trace' = Append(trace, Event("request", endpointIdx, attempt, 0, ""))
    /\ UNCHANGED <<variant, endpointIdx, attempt, result, tvars, rvars, svars, mvars>>

\* fetch resolves with 429: back off, then the next attempt.
Respond429 ==
    /\ qpc = "await"
    /\ QGoto(OnResponse(variant, endpointIdx, attempt, 429, "garbage"),
             <<Event("response", endpointIdx, attempt, 429, "")>>)
    /\ timer' = "cleared"
    /\ UNCHANGED <<variant, tvars, rvars, svars, mvars>>

\* fetch resolves with a status of 500 or more.
RespondServerError ==
    /\ qpc = "await"
    /\ \E status \in {s \in Statuses : s >= 500} :
          QGoto(OnResponse(variant, endpointIdx, attempt, status, "garbage"),
                <<Event("response", endpointIdx, attempt, status, "")>>)
    /\ timer' = "cleared"
    /\ UNCHANGED <<variant, tvars, rvars, svars, mvars>>

\* fetch resolves with another status that is not resp.ok.
RespondNotOk ==
    /\ qpc = "await"
    /\ \E status \in {s \in Statuses : ~Ok(s) /\ s # 429 /\ s < 500} :
          QGoto(OnResponse(variant, endpointIdx, attempt, status, "garbage"),
                <<Event("response", endpointIdx, attempt, status, "")>>)
    /\ timer' = "cleared"
    /\ UNCHANGED <<variant, tvars, rvars, svars, mvars>>

\* fetch resolves ok: clearTimeout, then resp.json() starts to read the body.
RespondOk ==
    /\ qpc = "await"
    /\ \E status \in {s \in Statuses : Ok(s)} :
          trace' = Append(trace, Event("response", endpointIdx, attempt, status, ""))
    /\ qpc' = "body"
    /\ timer' = "cleared"
    /\ UNCHANGED <<variant, endpointIdx, attempt, result, tvars, rvars, svars, mvars>>

\* The status of the response whose body is being read.
StatusRead == trace[Len(trace)].num

\* resp.json() parses the body: return the document.
RespondParsed ==
    /\ qpc = "body"
    /\ \E body \in JsonDocs :
          QGoto(OnResponse(variant, endpointIdx, attempt, StatusRead, body),
                <<Event("parsed", endpointIdx, attempt, 0, body)>>)
    /\ UNCHANGED <<variant, timer, tvars, rvars, svars, mvars>>

\* resp.json() rejects: the catch block runs.
RespondUnparseable ==
    /\ qpc = "body"
    /\ \E body \in Bodies \ JsonDocs :
          QGoto(OnResponse(variant, endpointIdx, attempt, StatusRead, body),
                <<Event("error", endpointIdx, attempt, 0, "SyntaxError")>>)
    /\ UNCHANGED <<variant, timer, tvars, rvars, svars, mvars>>

\* fetch rejects (transport failure, or the abort timer fired): the catch block runs.
FetchRejects ==
    /\ qpc = "await"
    /\ \E name \in RejectNames :
          /\ QGoto(OnException(variant, endpointIdx, attempt),
                   <<Event("error", endpointIdx, attempt, 0, name)>>)
          /\ timer' = IF name = "AbortError" THEN "fired" ELSE timer
    /\ UNCHANGED <<variant, tvars, rvars, svars, mvars>>

\* The sleep ends: `continue`, or the end of the loop body.
Wake ==
    /\ qpc = "sleep"
    /\ QGoto(AfterContinue(endpointIdx, attempt), <<>>)
    /\ UNCHANGED <<variant, timer, tvars, rvars, svars, mvars>>

QueryNext ==
    \/ Fetch
    \/ RespondOk
    \/ Respond429
    \/ RespondServerError
    \/ RespondNotOk
    \/ RespondParsed
    \/ RespondUnparseable
    \/ FetchRejects
    \/ Wake

\* The variables of getTiles when it is not the function under study.
TIdle ==
    /\ bbox = <<0, 0, 1, 1>>
    /\ tileSize = 1
    /\ tiles = <<>>
    /\ tpc = "returned"

\* The variables of extractRailways when it is not running.
RIdle ==
    /\ country = "none"
    /\ i = 0
    /\ rpc = "done"
    /\ sleepMs = 0
    /\ tileKind = "none"
    /\ elemCount = 0
    /\ allWays = <<>>
    /\ seenIds = {}
    /\ queried = <<>>
    /\ skipped = {}
    /\ returned = <<>>
    /\ slept = <<>>
    /\ call = "first"
    /\ emitted = {}

\* The variables of extractStations when it is not running.
SIdle ==
    /\ spc = "done"
    /\ towns = <<>>
    /\ stationMap = <<>>
    /\ stationCount = 0
    /\ stations = <<>>
    /\ namedFed = <<>>
    /\ keptFed = <<>>
    /\ cand = <<>>
    /\ lastUnnamed = <<>>

\* The variables of main when it is not running.
MIdle ==
    /\ mpc = "done"
    /\ mode = "all"
    /\ keys = <<>>
    /\ kidx = 0
    /\ entry = <<>>
    /\ manifest = <<>>
    /\ prev = <<>>
    /\ mlog = <<>>
    /\ written = <<>>
    /\ summary = <<>>

\* The variables of queryOverpass when it is not the function under study.
QIdle ==
    /\ endpointIdx = 0
    /\ attempt = 0
    /\ qpc = "done"
    /\ result = "none"
    /\ trace = <<>>
    /\ timer = "none"

InitQuery ==
    /\ variant \in Variants
    /\ QInit
    /\ TIdle
    /\ RIdle
    /\ SIdle
    /\ MIdle

SpecQuery == InitQuery /\ [][QueryNext]_vars

(***************************************************************************)
(* getTiles.  Coordinates are whole degrees.                               *)
(***************************************************************************)

TILE_THRESHOLD_DEG == 15

TILE_SIZE_DEG == 10

TILE_SIZES == [small |-> 20, medium |-> 8, large |-> 6, xlarge |-> 5]

Min(a, b) == IF a < b THEN a ELSE b

Tile_Unclipped(lat, lon, size, n, e) == <<lat, lon, lat + size, lon + size>>

\* tiles.push([lat, lon, Math.min(lat + tileSize, n), Math.min(lon + tileSize, e)])
Tile(lat, lon, size, n, e) == <<lat, lon, Min(lat + size, n), Min(lon + size, e)>>

RECURSIVE LonSweep_Descending(_, _, _, _, _)
LonSweep_Descending(lat, lon, size, n, e) ==
    IF lon < e
    THEN LonSweep_Descending(lat, lon + size, size, n, e) \o <<Tile(lat, lon, size, n, e)>>
    ELSE <<>>

RECURSIVE LonSweep(_, _, _, _, _)
\* for (let lon = w; lon < e; lon += tileSize), from lon on
LonSweep(lat, lon, size, n, e) ==
    IF lon < e
    THEN <<Tile(lat, lon, size, n, e)>> \o LonSweep(lat, lon + size, size, n, e)
    ELSE <<>>

RECURSIVE LatSweep(_, _, _, _, _)
\* for (let lat = s; lat < n; lat += tileSize), from lat on
LatSweep(lat, w, size, n, e) ==
    IF lat < n
    THEN LonSweep(lat, w, size, n, e) \o LatSweep(lat + size, w, size, n, e)
    ELSE <<>>

GetTiles_part000_EitherSpan(b, size) ==
    IF (b[3] - b[1]) <= size \/ (b[4] - b[2]) <= size
    THEN <<b>>
    ELSE LatSweep(b[1], b[2], size, b[3], b[4])

\* part_000: getTiles(bbox, tileSize)
GetTiles_part000(b, size) ==
    IF (b[3] - b[1]) <= size /\ (b[4] - b[2]) <= size
    THEN <<b>>
    ELSE LatSweep(b[1], b[2], size, b[3], b[4])

\* extract.js: getTiles(bbox)
GetTiles_extract(b) ==
    IF (b[3] - b[1]) <= TILE_THRESHOLD_DEG /\ (b[4] - b[2]) <= TILE_THRESHOLD_DEG
    THEN <<b>>
    ELSE LatSweep(b[1], b[2], TILE_SIZE_DEG, b[3], b[4])

GetTiles(v, b, size) == IF v = "extract" THEN GetTiles_extract(b) ELSE GetTiles_part000(b, size)

\* The largest coordinate of the boxes tried, and the largest tile size tried
\* besides those of TILE_SIZES.
MaxCoord == 6

MaxTileSize == 4

\* Boxes with south < north and west < east. extract.js tiles in steps of 10
\* above a threshold of 15, so its boxes are taken on a grid of 3 degrees.
Boxes(v) ==
    LET C == IF v = "extract" THEN {3 * c : c \in 0..(MaxCoord + 1)} ELSE 0..MaxCoord
        O == IF v = "extract" THEN {0, 3} ELSE {0, 1}
    IN  {<<s, w, n, e>> : s \in O, w \in O, n \in C, e \in C} \cup {<<0, 0, 10, 10>>}

ValidBoxes(v) == {b \in Boxes(v) : b[1] < b[3] /\ b[2] < b[4]}

\* The tile sizes tried: extract.js has the one, TILE_SIZE_DEG.
TileSizesOf(v) ==
    IF v = "extract" THEN {TILE_SIZE_DEG}
    ELSE (1..MaxTileSize) \cup {TILE_SIZES[k] : k \in DOMAIN TILE_SIZES}

InitTiles ==
    /\ variant \in Variants
    /\ bbox \in ValidBoxes(variant)
    /\ tileSize \in TileSizesOf(variant)
    /\ tiles = <<>>
    /\ tpc = "call"
    /\ QIdle
    /\ RIdle
    /\ SIdle
    /\ MIdle

\* const tiles = getTiles(...)
GetTilesCall ==
    /\ tpc = "call"
    /\ tiles' = GetTiles(variant, bbox, tileSize)
    /\ tpc' = "returned"
    /\ UNCHANGED <<variant, bbox, tileSize, qvars, rvars, svars, mvars>>

SpecTiles == InitTiles /\ [][GetTilesCall]_vars

(***************************************************************************)
(* extractRailways                                                         *)
(***************************************************************************)

DELAY_BETWEEN_QUERIES_MS == 5000

DELAY_MS == 8000

\* The countries tried, with their bounding boxes rounded to whole degrees.
CountryKeys == {"bulgaria", "romania", "turkey", "pakistan"}

CountryBbox(key) ==
    CASE key = "bulgaria" -> <<41, 22, 44, 29>>
      [] key = "romania"  -> <<44, 20, 48, 30>>
      [] key = "turkey"   -> <<36, 26, 42, 45>>
      [] key = "pakistan" -> <<24, 61, 37, 78>>

COUNTRIES_SMALL == {"bulgaria", "azerbaijan", "turkmenistan", "afghanistan"}

COUNTRIES_MEDIUM == {"romania", "uzbekistan", "turkey"}

COUNTRIES_LARGE == {"iran", "pakistan", "ukraine", "kazakhstan"}

getCountrySize(key) ==
    IF key \in COUNTRIES_SMALL THEN "small"
    ELSE IF key \in COUNTRIES_MEDIUM THEN "medium"
    ELSE IF key \in COUNTRIES_LARGE THEN "large"
    ELSE "xlarge"

\* The tile size extractRailways sweeps with.
TileSizeFor(v, key) == IF v = "extract" THEN TILE_SIZE_DEG ELSE TILE_SIZES[getCountrySize(key)]

\* How many distinct feature ids the service returns, how many elements a
\* tile's response holds at most, and how many tiles the countries tried have
\* at most.
NumIds == 2

MaxElems == 2

MaxTiles == 4

\* The countries tried: those of CountryKeys of at most MaxTiles tiles.
CountriesTried(v) ==
    {key \in CountryKeys :
        Len(GetTiles(v, CountryBbox(key), TileSizeFor(v, key))) <= MaxTiles}

Ids == 1..NumIds

\* Geometry points, in millionths of a degree.
P1 == [lat |-> 41123456, lon |-> 28987654]

P2 == [lat |-> 41200004, lon |-> 29000005]

\* el.geometry: absent, or an array of one or two points.
Geometries ==
    { [present |-> FALSE, points |-> <<>>],
      [present |-> TRUE, points |-> <<P1>>],
      [present |-> TRUE, points |-> <<P1, P2>>] }

\* The way elements a tile can return: el.id, el.tags.railway ("none": no tag), el.geometry.
RailFeatures == [id : Ids, railway : {"none", "narrow_gauge"}, geometry : Geometries]

\* Math.round(x * 100000) / 100000, x in millionths of a degree.
Round5(x) == ((x + 5) \div 10) * 10

\* The segment pushed for el.
Segment(el) ==
    [ id |-> el.id,
      type |-> IF el.railway = "none" THEN "rail" ELSE el.railway,
      geometry |-> [k \in 1..Len(el.geometry.points) |->
                       <<Round5(el.geometry.points[k].lat), Round5(el.geometry.points[k].lon)>>] ]

Collect_NoDedup(seen, ways, el) ==
    IF ~el.geometry.present \/ Len(el.geometry.points) < 2
    THEN [seen |-> seen \cup {el.id}, ways |-> ways]
    ELSE [seen |-> seen \cup {el.id}, ways |-> Append(ways, Segment(el))]

Collect_GeometryFirst(seen, ways, el) ==
    IF ~el.geometry.present \/ Len(el.geometry.points) < 2 THEN [seen |-> seen, ways |-> ways]
    ELSE IF el.id \in seen THEN [seen |-> seen, ways |-> ways]
    ELSE [seen |-> seen \cup {el.id}, ways |-> Append(ways, Segment(el))]

\* The body of `for (const el of data.elements)`.
Collect(seen, ways, el) ==
    IF el.id \in seen THEN [seen |-> seen, ways |-> ways]
    ELSE IF ~el.geometry.present \/ Len(el.geometry.points) < 2
    THEN [seen |-> seen \cup {el.id}, ways |-> ways]
    ELSE [seen |-> seen \cup {el.id}, ways |-> Append(ways, Segment(el))]

RPos(pc, k, ms) == [pc |-> pc, i |-> k, ms |-> ms]

\* i++ and the loop test; after the loop the function returns allWays.
NextTile(k, n) == IF k + 1 < n THEN RPos("query", k + 1, 0) ELSE RPos("done", k + 1, 0)

InterTileDelay(v) == IF v = "extract" THEN DELAY_BETWEEN_QUERIES_MS ELSE DELAY_MS

\* The end of the loop body: if (i < tiles.length - 1) await sleep(...)
AfterDataTile(v, k, n) ==
    IF k < n - 1 THEN RPos("sleep", k, InterTileDelay(v)) ELSE NextTile(k, n)

AfterNullTile_NoCheck(v, k, n) == RPos("threw", k, 0)

\* The branch taken when the tile has no data: extract.js continues at once,
\* part_000 sleeps first unless the tile is the last.
AfterNullTile(v, k, n) ==
    IF v = "extract" THEN NextTile(k, n)
    ELSE IF k < n - 1 THEN RPos("sleep", k, DELAY_MS) ELSE NextTile(k, n)

RGoto(p) ==
    /\ rpc' = p.pc
    /\ i' = p.i
    /\ sleepMs' = p.ms
    /\ slept' = IF p.pc = "sleep" THEN Append(slept, p.i) ELSE slept

\* Whether el has at least 2 geometry points.
HasLine(el) == el.geometry.present /\ Len(el.geometry.points) >= 2

\* What is recorded of the elements returned: per id, whether its first
\* occurrence had at least 2 points, whether it came once or more often, and
\* whether an occurrence after the first had at least 2 points.
Record(ret, el) ==
    [ret EXCEPT ![el.id] =
        [ first |-> IF @.first # "none" THEN @.first
                    ELSE IF HasLine(el) THEN "line" ELSE "degenerate",
          n |-> Min(@.n + 1, 2),
          later |-> @.later \/ (@.first # "none" /\ HasLine(el)) ]]

InitRail ==
    /\ variant \in Variants
    /\ country \in CountriesTried(variant)
    /\ bbox = CountryBbox(country)
    /\ tileSize = TileSizeFor(variant, country)
    /\ tiles = GetTiles(variant, bbox, tileSize)
    /\ tpc = "returned"
    /\ i = 0
    /\ rpc = "query"
    /\ sleepMs = 0
    /\ tileKind = "none"
    /\ elemCount = 0
    /\ allWays = <<>>
    /\ seenIds = {}
    /\ queried = <<>>
    /\ skipped = {}
    /\ returned = [id \in Ids |-> [first |-> "none", n |-> 0, later |-> FALSE]]
    /\ slept = <<>>
    /\ call = "first"
    /\ emitted = {}
    /\ QIdle
    /\ SIdle
    /\ MIdle

rframe == <<variant, qvars, tvars, svars, mvars, country, call, emitted>>

\* queryOverpass returns null, or data without elements: the tile is skipped.
QueryTileNoData ==
    /\ rpc = "query"
    /\ tileKind' \in {"null", "noElements"}
    /\ queried' = Append(queried, i)
    /\ skipped' = skipped \cup {i}
    /\ RGoto(AfterNullTile(variant, i, Len(tiles)))
    /\ UNCHANGED <<rframe, elemCount, allWays, seenIds, returned>>

\* queryOverpass returns data with an elements array.
QueryTileData ==
    /\ rpc = "query"
    /\ tileKind' = "elements"
    /\ queried' = Append(queried, i)
    /\ rpc' = "elements"
    /\ elemCount' = 0
    /\ UNCHANGED <<rframe, i, sleepMs, allWays, seenIds, skipped, returned, slept>>

\* One turn of `for (const el of data.elements)`.
ProcessElement ==
    /\ rpc = "elements"
    /\ elemCount < MaxElems
    /\ \E el \in RailFeatures :
          /\ seenIds' = Collect(seenIds, allWays, el).seen
          /\ allWays' = Collect(seenIds, allWays, el).ways
          /\ returned' = Record(returned, el)
    /\ elemCount' = elemCount + 1
    /\ UNCHANGED <<rframe, i, rpc, sleepMs, tileKind, queried, skipped, slept>>

\* The elements are used up: the inter-tile sleep, unless the tile is the last.
EndOfElements ==
    /\ rpc = "elements"
    /\ RGoto(AfterDataTile(variant, i, Len(tiles)))
    /\ UNCHANGED <<rframe, tileKind, elemCount, allWays, seenIds, queried, skipped, returned>>

\* The inter-tile sleep ends.
TileSleepDone ==
    /\ rpc = "sleep"
    /\ RGoto(NextTile(i, Len(tiles)))
    /\ UNCHANGED <<rframe, tileKind, elemCount, allWays, seenIds, queried, skipped, returned>>

RailNext ==
    \/ QueryTileNoData
    \/ QueryTileData
    \/ ProcessElement
    \/ EndOfElements
    \/ TileSleepDone

SpecRail == InitRail /\ [][RailNext]_vars

SeenAtEntry_Carried(left) == left

\* const seenIds = new Set(): the set a call starts with, whatever the set of
\* the call before it was left holding.
SeenAtEntry(left) == {}

\* The countries the run is asked for on the command line.
RunKeys == {"bulgaria", "romania"}

\* extractRailways has returned for one country and main's loop calls it for
\* the next: tiles, allWays and seenIds are made anew.
NextRailwaysCall ==
    /\ rpc = "done"
    /\ \E key \in RunKeys :
          /\ country' = key
          /\ bbox' = CountryBbox(key)
          /\ tileSize' = TileSizeFor(variant, key)
          /\ tiles' = GetTiles(variant, CountryBbox(key), TileSizeFor(variant, key))
    /\ i' = 0
    /\ rpc' = "query"
    /\ sleepMs' = 0
    /\ tileKind' = "none"
    /\ elemCount' = 0
    /\ allWays' = <<>>
    /\ seenIds' = SeenAtEntry(seenIds)
    /\ queried' = <<>>
    /\ skipped' = {}
    /\ returned' = [id \in Ids |-> [first |-> "none", n |-> 0, later |-> FALSE]]
    /\ slept' = <<>>
    /\ call' = "later"
    /\ emitted' = emitted \cup {allWays[x].id : x \in 1..Len(allWays)}
    /\ UNCHANGED <<variant, qvars, tpc, svars, mvars>>

RailRunNext ==
    \/ RailNext
    \/ NextRailwaysCall

\* The extractRailways calls of one run, country after country.
InitRailRun == InitRail /\ country \in RunKeys

SpecRailRun == InitRailRun /\ [][RailRunNext]_vars

(***************************************************************************)
(* extractStations.  Coordinates are millionths of a degree.               *)
(***************************************************************************)

\* A tag the element does not have (undefined).
NoTag == "<none>"

\* JavaScript truthiness of a tag value.
Truthy(t) == t # NoTag /\ t # ""

\* a || b || c
FirstTruthy(a, b, c) == IF Truthy(a) THEN a ELSE IF Truthy(b) THEN b ELSE c

\* name.trim(), on the names tried.
Trim(t) == IF t = "  " THEN "" ELSE t

\* name.toLowerCase().match(/station|vokzal|gar|istasyon/), on the names tried.
MatchesStationWord(t) ==
    t \in {"Ankara Gar", "Central Station", "Ankara Station", "Konya Station", "Izmir Station"}

\* `${closestTown.name} Station`
StationOf(town) ==
    CASE town = "Ankara" -> "Ankara Station"
      [] town = "Konya"  -> "Konya Station"
      [] town = "Izmir"  -> "Izmir Station"

\* The names tried, in the order of localeCompare.
NameOrder ==
    << "", "  ", "Ankara Gar", "Ankara Station", "Central Station", "Izmir Station",
       "Konya Station", "Merkez", "R1" >>

NameRank(t) == CHOOSE k \in 1..Len(NameOrder) : NameOrder[k] = t

\* a.name.localeCompare(b.name) <= 0
NameLeq(x, y) == NameRank(x.name) <= NameRank(y.name)

RECURSIVE InsertByName(_, _)
\* x put into the sorted list after the elements that do not come after it.
InsertByName(sorted, x) ==
    IF sorted = <<>> THEN <<x>>
    ELSE IF NameLeq(sorted[Len(sorted)], x) THEN Append(sorted, x)
    ELSE Append(InsertByName(SubSeq(sorted, 1, Len(sorted) - 1), x), sorted[Len(sorted)])

RECURSIVE SortByName(_)
\* .sort((a, b) => a.name.localeCompare(b.name)): a stable sort.
SortByName(list) ==
    IF list = <<>> THEN <<>>
    ELSE InsertByName(SortByName(SubSeq(list, 1, Len(list) - 1)), list[Len(list)])

\* lat.toFixed(4), as millionths of a degree.
ToFixed4(x) == ((x + 50) \div 100) * 100

StationKey_FiveDecimals(lat, lon) == <<Round5(lat), Round5(lon)>>

\* `${lat.toFixed(4)},${lon.toFixed(4)}`
StationKey(lat, lon) == <<ToFixed4(lat), ToFixed4(lon)>>

Abs(x) == IF x < 0 THEN -x ELSE x

\* haversine(lat1, lon1, lat2, lon2) in metres, for points that lie within a
\* few metres of one meridian, as those tried do: 6371 km * dLat * pi / 180,
\* 0.1112 m for a millionth of a degree.
Haversine(lat1, lon1, lat2, lon2) == (Abs(lat2 - lat1) * 1112) \div 10000

\* stationMap.has(key)
MapHas(m, key) == \E k \in 1..Len(m) : m[k].key = key

\* stationMap.set(key, value): an existing key keeps its place.
MapSet(m, key, value) ==
    IF MapHas(m, key)
    THEN [k \in 1..Len(m) |-> IF m[k].key = key THEN [key |-> key, value |-> value] ELSE m[k]]
    ELSE Append(m, [key |-> key, value |-> value])

\* Array.from(stationMap.values())
MapValues(m) == [k \in 1..Len(m) |-> m[k].value]

\* el.type === 'way' ? el.center?.lat : el.lat (0: undefined)
ElLat(el) == IF el.hasPos THEN el.lat ELSE 0

ElLon(el) == IF el.hasPos THEN el.lon ELSE 0

\* The value stored for el under the resolved name; src is el itself.
StationValue(el, name, alt) ==
    [ id |-> el.id,
      lat |-> Round5(ElLat(el)),
      lon |-> Round5(ElLon(el)),
      name |-> name,
      alt |-> alt,
      type |-> IF Truthy(el.railway) THEN el.railway ELSE "station",
      src |-> el ]

RECURSIVE ClosestFrom(_, _, _, _, _, _)
\* for (const town of towns) { if (d < minDist && d < 5) ... }, from town k on;
\* best is the index of closestTown (0: null), minDist -1 stands for Infinity.
ClosestFrom(k, best, minDist, lat, lon, ts) ==
    IF k > Len(ts) THEN best
    ELSE LET d == Haversine(lat, lon, ts[k].lat, ts[k].lon)
         IN  IF (minDist = -1 \/ d < minDist) /\ d < 5000
             THEN ClosestFrom(k + 1, k, d, lat, lon, ts)
             ELSE ClosestFrom(k + 1, best, minDist, lat, lon, ts)

NearTown_Always(lat, lon, ts) == TRUE

\* towns.some(t => haversine(lat, lon, t.lat, t.lon) <= 10)
NearTown(lat, lon, ts) ==
    \E k \in 1..Len(ts) : Haversine(lat, lon, ts[k].lat, ts[k].lon) <= 10000

\* extract.js: the name resolved for el, "" when the element is skipped.
ResolveName_extract(el, ts) ==
    LET tagged == FirstTruthy(el.name, el.nameEn, el.ref)
        c == ClosestFrom(1, 0, -1, ElLat(el), ElLon(el), ts)
    IN  IF Truthy(tagged) THEN tagged
        ELSE IF c # 0 /\ Truthy(ts[c].name) THEN StationOf(ts[c].name)
        ELSE ""

\* extract.js: the body of `for (const el of data.elements)`.
Station_extract(m, ts, el) ==
    LET lat == ElLat(el)
        lon == ElLon(el)
        name == ResolveName_extract(el, ts)
        key == StationKey(lat, lon)
    IN  IF lat = 0 \/ lon = 0 THEN m
        ELSE IF el.building = "train_station" /\ Len(ts) > 0 /\ ~NearTown(lat, lon, ts) THEN m
        ELSE IF ~Truthy(name) THEN m
        ELSE IF ~MapHas(m, key) \/ MatchesStationWord(name)
        THEN MapSet(m, key,
                    StationValue(el, name, IF Truthy(el.nameEn) THEN el.nameEn ELSE NoTag))
        ELSE m

\* part_000: the body of `for (const el of data.elements)`.
Station_part000(m, el) ==
    LET lat == ElLat(el)
        lon == ElLon(el)
        tagged == FirstTruthy(el.nameEn, el.name, el.ref)
        name == Trim(tagged)
        key == StationKey(lat, lon)
    IN  IF lat = 0 \/ lon = 0 THEN m
        ELSE IF ~Truthy(tagged) THEN m
        ELSE IF ~MapHas(m, key)
        THEN MapSet(m, key,
                    StationValue(el, name,
                                 IF Truthy(el.name) /\ el.name # name THEN el.name ELSE NoTag))
        ELSE m

\* How many elements a station response holds at most.
MaxStationElems == 3

\* Where the elements tried lie: three nodes, two of them in one 4-decimal
\* bucket, a way with its center, and a way without one.
PosA == [type |-> "node", hasPos |-> TRUE, lat |-> 41000040, lon |-> 28980000]

PosB == [type |-> "node", hasPos |-> TRUE, lat |-> 41000049, lon |-> 28980000]

PosC == [type |-> "node", hasPos |-> TRUE, lat |-> 41000051, lon |-> 28980000]

PosE == [type |-> "way", hasPos |-> TRUE, lat |-> 41000049, lon |-> 28980000]

PosF == [type |-> "way", hasPos |-> FALSE, lat |-> 0, lon |-> 0]

\* The name tags tried.
TagsNone == [name |-> NoTag, nameEn |-> NoTag, ref |-> NoTag]

TagsGar == [name |-> "Ankara Gar", nameEn |-> NoTag, ref |-> NoTag]

TagsPlain == [name |-> "Merkez", nameEn |-> NoTag, ref |-> NoTag]

TagsBlank == [name |-> "  ", nameEn |-> NoTag, ref |-> NoTag]

TagsRef == [name |-> "", nameEn |-> NoTag, ref |-> "R1"]

TagsBoth == [name |-> "Merkez", nameEn |-> "Central Station", ref |-> NoTag]

AllTags == {TagsNone, TagsGar, TagsPlain, TagsBlank, TagsRef, TagsBoth}

\* An element of the response; its id is set when it is taken.
Sample(pos, tags, railway, building) ==
    [ id |-> 0, type |-> pos.type, hasPos |-> pos.hasPos, lat |-> pos.lat, lon |-> pos.lon,
      name |-> tags.name, nameEn |-> tags.nameEn, ref |-> tags.ref,
      railway |-> railway, building |-> building ]

\* The elements the station query of each variant can return.
StationSamples(v) ==
    {Sample(PosB, t, "station", NoTag) : t \in AllTags}
    \cup {Sample(pos, t, "station", NoTag) : pos \in {PosA, PosC, PosE}, t \in {TagsGar, TagsPlain}}
    \cup {Sample(PosF, TagsGar, "station", NoTag), Sample(PosB, TagsPlain, NoTag, NoTag)}
    \cup IF v = "extract"
         THEN {Sample(PosE, t, NoTag, "train_station") : t \in {TagsNone, TagsGar, TagsPlain}}
              \cup {Sample(PosB, TagsGar, "halt", NoTag)}
         ELSE {}

\* The towns tried: t.tags?.name || t.tags?.['name:en'] is NoTag for a town without a name.
TownHamlet == [lat |-> 41010000, lon |-> 28980000, name |-> NoTag]

TownAnkara == [lat |-> 41030000, lon |-> 28980000, name |-> "Ankara"]

TownKonya == [lat |-> 41070000, lon |-> 28980000, name |-> "Konya"]

TownIzmir == [lat |-> 41200000, lon |-> 28980000, name |-> "Izmir"]

\* What the town query can return: null, or data with these elements.
TownResponses ==
    { [data |-> FALSE, elements |-> <<>>],
      [data |-> TRUE, elements |-> <<>>],
      [data |-> TRUE, elements |-> <<TownAnkara>>],
      [data |-> TRUE, elements |-> <<TownHamlet, TownAnkara>>],
      [data |-> TRUE, elements |-> <<TownKonya>>],
      [data |-> TRUE, elements |-> <<TownIzmir>>],
      [data |-> TRUE, elements |-> <<TownIzmir, TownKonya>>] }

\* townData?.elements?.map(...) || []
TownsOf(resp) == IF resp.data THEN resp.elements ELSE <<>>

\* Whether the element carries a name, name:en or ref that is not empty.
Named(el) == Truthy(el.name) \/ Truthy(el.nameEn) \/ Truthy(el.ref)

\* The 4-decimal bucket of the element's coordinates.
BucketOf(el) == <<(el.lat + 50) \div 100, (el.lon + 50) \div 100>>

Buckets == {BucketOf(pos) : pos \in {PosA, PosB, PosC, PosE}}

\* Whether extract.js drops the element as a building=train_station that has
\* no town within 10 km, the town query having returned towns.
FarBuilding(v, ts, el) ==
    /\ v = "extract"
    /\ el.building = "train_station"
    /\ ts # <<>>
    /\ \A k \in 1..Len(ts) : Haversine(el.lat, el.lon, ts[k].lat, ts[k].lon) > 10000

\* The name the element's own tags give it, in the variant's order of preference.
TagName(v, el) ==
    IF v = "extract" THEN FirstTruthy(el.name, el.nameEn, el.ref)
    ELSE FirstTruthy(el.nameEn, el.name, el.ref)

\* extract.js: a named town lies within 5 km of the element.
NamedTownNear(ts, el) ==
    \E k \in 1..Len(ts) :
        Truthy(ts[k].name) /\ Haversine(el.lat, el.lon, ts[k].lat, ts[k].lon) < 5000

\* A candidate for its bucket: an element with coordinates that the town filter
\* lets through and that has a name of its own or, in extract.js, a named town
\* within 5 km.
IsCandidate(v, ts, el) ==
    /\ el.hasPos
    /\ ~FarBuilding(v, ts, el)
    /\ Named(el) \/ (v = "extract" /\ NamedTownNear(ts, el))

\* What is known of a bucket's candidates once el has come.
SeeCandidate(c, v, el) ==
    [ first |-> IF c.first = 0 THEN el.id ELSE c.first,
      firstMatch |-> IF c.firstMatch = 0 /\ Named(el) /\ MatchesStationWord(TagName(v, el))
                     THEN el.id ELSE c.firstMatch,
      tagged |-> c.tagged /\ Named(el) ]

\* The name under which the map holds the element with this id, "" if it does not.
StoredName(m, id) ==
    IF \E k \in 1..Len(m) : m[k].value.id = id
    THEN m[CHOOSE k \in 1..Len(m) : m[k].value.id = id].value.name
    ELSE ""

InitStations ==
    /\ variant \in Variants
    /\ spc = IF variant = "extract" THEN "towns" ELSE "query"
    /\ towns = <<>>
    /\ stationMap = <<>>
    /\ stationCount = 0
    /\ stations = <<>>
    /\ namedFed = [b \in Buckets |-> 0]
    /\ keptFed = [b \in Buckets |-> 0]
    /\ cand = [b \in Buckets |-> [first |-> 0, firstMatch |-> 0, tagged |-> TRUE]]
    /\ lastUnnamed = [id |-> 0, lat |-> 0, lon |-> 0, name |-> ""]
    /\ QIdle
    /\ TIdle
    /\ RIdle
    /\ MIdle

sframe == <<variant, qvars, tvars, rvars, mvars>>

\* extract.js: the town query returns; then the sleep between the two queries.
TownsReturned ==
    /\ spc = "towns"
    /\ \E resp \in TownResponses : towns' = TownsOf(resp)
    /\ spc' = "sleep"
    /\ UNCHANGED <<sframe, stationMap, stationCount, stations, namedFed, keptFed, cand, lastUnnamed>>

\* extract.js: await sleep(DELAY_BETWEEN_QUERIES_MS) ends.
StationSleepDone ==
    /\ spc = "sleep"
    /\ spc' = "query"
    /\ UNCHANGED <<sframe, towns, stationMap, stationCount, stations, namedFed, keptFed, cand, lastUnnamed>>

\* The station query returns null, or data without elements: return [].
QueryStationsNoData ==
    /\ spc = "query"
    /\ spc' = "done"
    /\ stations' = <<>>
    /\ UNCHANGED <<sframe, towns, stationMap, stationCount, namedFed, keptFed, cand, lastUnnamed>>

\* The station query returns data with an elements array.
QueryStationsData ==
    /\ spc = "query"
    /\ spc' = "elements"
    /\ UNCHANGED <<sframe, towns, stationMap, stationCount, stations, namedFed, keptFed, cand, lastUnnamed>>

\* One turn of `for (const el of data.elements)`.
ProcessStation ==
    /\ spc = "elements"
    /\ stationCount < MaxStationElems
    /\ \E sample \in StationSamples(variant) :
          LET el == [sample EXCEPT !.id = 100 + stationCount]
          IN  /\ stationMap' = IF variant = "extract"
                               THEN Station_extract(stationMap, towns, el)
                               ELSE Station_part000(stationMap, el)
              /\ namedFed' = IF el.hasPos /\ Named(el)
                             THEN [namedFed EXCEPT ![BucketOf(el)] = Min(@ + 1, 2)]
                             ELSE namedFed
              /\ keptFed' = IF el.hasPos /\ Named(el) /\ ~FarBuilding(variant, towns, el)
                            THEN [keptFed EXCEPT ![BucketOf(el)] = Min(@ + 1, 2)]
                            ELSE keptFed
              /\ cand' = IF IsCandidate(variant, towns, el)
                         THEN [cand EXCEPT ![BucketOf(el)] = SeeCandidate(@, variant, el)]
                         ELSE cand
              /\ lastUnnamed' = IF el.hasPos /\ ~Named(el)
                                THEN [id |-> el.id, lat |-> el.lat, lon |-> el.lon,
                                      name |-> StoredName(stationMap', el.id)]
                                ELSE lastUnnamed
    /\ stationCount' = stationCount + 1
    /\ UNCHANGED <<sframe, spc, towns, stations>>

\* The elements are used up: sort the values by name and return them.
EndOfStations ==
    /\ spc = "elements"
    /\ stations' = SortByName(MapValues(stationMap))
    /\ spc' = "done"
    /\ UNCHANGED <<sframe, towns, stationMap, stationCount, namedFed, keptFed, cand, lastUnnamed>>

StationsNext ==
    \/ TownsReturned
    \/ StationSleepDone
    \/ QueryStationsNoData
    \/ QueryStationsData
    \/ ProcessStation
    \/ EndOfStations

SpecStations == InitStations /\ [][StationsNext]_vars

(***************************************************************************)
(* main.  A field a manifest entry does not have is -1 or "".              *)
(***************************************************************************)

Modes == {"all", "railways", "stations"}

\* The countries of the manifest; those of Requestable are asked for.
MainCountries == {"bulgaria", "turkey", "iran"}

Requestable == {"bulgaria", "turkey"}

\* keys: the arguments that name a country, in the order given, each once.
RequestLists ==
    {<<>>} \cup {<<a>> : a \in Requestable}
           \cup {p \in Requestable \X Requestable : p[1] # p[2]}

\* country.name
CountryName(key) ==
    CASE key = "bulgaria" -> "Bulgaria"
      [] key = "turkey"   -> "Turkey"
      [] key = "iran"     -> "Iran"

\* {}
EmptyEntry ==
    [ present |-> TRUE, name |-> "", meta |-> FALSE,
      railwaySegments |-> -1, railwayFileKB |-> -1, railwaysExtracted |-> "",
      stations |-> -1, stationFileKB |-> -1, stationsExtracted |-> "",
      extracted |-> "", error |-> "" ]

\* manifest.countries[key] is undefined
NoEntry == [EmptyEntry EXCEPT !.present = FALSE]

\* manifest.countries[key] || {}
LookupEntry(m, key) == IF m[key].present THEN m[key] ELSE EmptyEntry

\* What an extraction returns and the size of its file: length, KB.
Results == {[n |-> 0, kb |-> 0], [n |-> 3, kb |-> 1]}

\* e.message of what a phase throws, and where it throws: in the extraction,
\* in writeFileSync, or in statSync once the file is written.
ErrMessages == {"EACCES: permission denied", "data.elements is not iterable"}

ThrowStages == {"extract", "write", "stat"}

\* new Date().toISOString() in this run, and in the run before.
Now == "t1"

Before == "t0"

\* Entries as earlier runs leave them: both phases done, or the railways done
\* and the stations failed.
OkEntry(key) ==
    [ present |-> TRUE, name |-> CountryName(key), meta |-> TRUE,
      railwaySegments |-> 3, railwayFileKB |-> 1, railwaysExtracted |-> Before,
      stations |-> 3, stationFileKB |-> 1, stationsExtracted |-> Before,
      extracted |-> "", error |-> "" ]

FailedEntry(key) ==
    [ present |-> TRUE, name |-> CountryName(key), meta |-> FALSE,
      railwaySegments |-> 3, railwayFileKB |-> 1, railwaysExtracted |-> Before,
      stations |-> -1, stationFileKB |-> -1, stationsExtracted |-> "",
      extracted |-> "", error |-> "EACCES: permission denied" ]

\* manifest.countries at the start: part_000 reads the file of an earlier run
\* (none, or one that does not parse, leaves it empty); extract.js starts empty.
PrevManifests(v) ==
    IF v = "extract" THEN {[c \in MainCountries |-> NoEntry]}
    ELSE {m \in [MainCountries -> {NoEntry} \cup {OkEntry(c) : c \in MainCountries}
                                            \cup {FailedEntry(c) : c \in MainCountries}] :
             \A c \in MainCountries : m[c].present => m[c].name = CountryName(c)}

\* mode === 'all' || mode === 'railways'; extract.js always runs both phases.
RunsRailways_Always(v, m) == TRUE

RunsRailways(v, m) == v = "extract" \/ m \in {"all", "railways"}

RunsStations(v, m) == v = "extract" \/ m \in {"all", "stations"}

\* Object.assign(entry, { railwaySegments, railwayFileKB, railwaysExtracted });
\* extract.js keeps railways.length and railSize in locals.
AssignRailways(v, e, res) ==
    [e EXCEPT !.railwaySegments = res.n, !.railwayFileKB = res.kb,
              !.railwaysExtracted = IF v = "extract" THEN "" ELSE Now]

AssignStations(v, e, res) ==
    [e EXCEPT !.stations = res.n, !.stationFileKB = res.kb,
              !.stationsExtracted = IF v = "extract" THEN "" ELSE Now]

FinishEntry_KeepsError(v, e, key) ==
    IF v = "extract" THEN [e EXCEPT !.name = CountryName(key), !.meta = TRUE, !.extracted = Now]
    ELSE [e EXCEPT !.name = CountryName(key), !.meta = TRUE]

\* The entry of a country whose phases went through: extract.js builds it from
\* the results, part_000 assigns name, code and bbox and deletes entry.error.
FinishEntry(v, e, key) ==
    IF v = "extract" THEN [e EXCEPT !.name = CountryName(key), !.meta = TRUE, !.extracted = Now]
    ELSE [e EXCEPT !.name = CountryName(key), !.meta = TRUE, !.error = ""]

\* The entry of a country one of whose phases threw.
CatchEntry(v, e, key, msg) ==
    IF v = "extract" THEN [EmptyEntry EXCEPT !.name = CountryName(key), !.error = msg]
    ELSE [e EXCEPT !.error = msg, !.name = CountryName(key)]

AfterCatch_Rethrows == "crashed"

\* Where main goes after the catch block: on to the next country.
AfterCatch == "loop"

\* Where main goes after a phase that went through.
AfterRailways(v, m) == IF RunsStations(v, m) THEN "stations" ELSE "finish"

FirstPhase(v, m) ==
    IF RunsRailways(v, m) THEN "railways"
    ELSE IF RunsStations(v, m) THEN "stations" ELSE "finish"

\* if (info.error) ... else ...
SummaryLine(e) == IF e.error # "" THEN "error" ELSE "success"

Key == keys[kidx]

InitMain ==
    /\ variant \in Variants
    /\ mpc = "loop"
    /\ mode \in IF variant = "extract" THEN {"all"} ELSE Modes
    /\ keys \in RequestLists
    /\ kidx = 0
    /\ entry = EmptyEntry
    /\ prev \in PrevManifests(variant)
    /\ manifest = prev
    /\ mlog = [railCalls |-> {}, stationCalls |-> {}, railFiles |-> {}, statFiles |-> {},
               attempted |-> <<>>, threw |-> {}]
    /\ written = <<>>
    /\ summary = <<>>
    /\ QIdle
    /\ TIdle
    /\ RIdle
    /\ SIdle

mframe == <<variant, qvars, tvars, rvars, svars, mode, keys, prev>>

\* for (const key of keys): the next country, and its entry so far.
NextCountry ==
    /\ mpc = "loop"
    /\ kidx < Len(keys)
    /\ kidx' = kidx + 1
    /\ entry' = IF variant = "extract" THEN EmptyEntry ELSE LookupEntry(manifest, keys[kidx + 1])
    /\ mlog' = [mlog EXCEPT !.attempted = Append(@, keys[kidx + 1])]
    /\ mpc' = FirstPhase(variant, mode)
    /\ UNCHANGED <<mframe, manifest, written, summary>>

\* The railway phase goes through: extraction, file, entry, sleep.
RailwaysOk ==
    /\ mpc = "railways"
    /\ \E res \in Results : entry' = AssignRailways(variant, entry, res)
    /\ mlog' = [mlog EXCEPT !.railCalls = @ \cup {Key}, !.railFiles = @ \cup {Key}]
    /\ mpc' = AfterRailways(variant, mode)
    /\ UNCHANGED <<mframe, kidx, manifest, written, summary>>

\* The railway phase throws; the catch block records the error.
RailwaysThrows ==
    /\ mpc = "railways"
    /\ \E msg \in ErrMessages, stage \in ThrowStages :
          /\ manifest' = [manifest EXCEPT ![Key] = CatchEntry(variant, entry, Key, msg)]
          /\ mlog' = [mlog EXCEPT !.railCalls = @ \cup {Key},
                                  !.railFiles = IF stage = "stat" THEN @ \cup {Key} ELSE @,
                                  !.threw = @ \cup {Key}]
    /\ mpc' = AfterCatch
    /\ UNCHANGED <<mframe, kidx, entry, written, summary>>

\* The station phase goes through: extraction, file, entry, sleep.
StationsOk ==
    /\ mpc = "stations"
    /\ \E res \in Results : entry' = AssignStations(variant, entry, res)
    /\ mlog' = [mlog EXCEPT !.stationCalls = @ \cup {Key}, !.statFiles = @ \cup {Key}]
    /\ mpc' = "finish"
    /\ UNCHANGED <<mframe, kidx, manifest, written, summary>>

\* The station phase throws; the catch block records the error on the entry as
\* the railway phase left it.
StationsThrows ==
    /\ mpc = "stations"
    /\ \E msg \in ErrMessages, stage \in ThrowStages :
          /\ manifest' = [manifest EXCEPT ![Key] = CatchEntry(variant, entry, Key, msg)]
          /\ mlog' = [mlog EXCEPT !.stationCalls = @ \cup {Key},
                                  !.statFiles = IF stage = "stat" THEN @ \cup {Key} ELSE @,
                                  !.threw = @ \cup {Key}]
    /\ mpc' = AfterCatch
    /\ UNCHANGED <<mframe, kidx, entry, written, summary>>

\* The end of the try block: manifest.countries[key] = the finished entry.
FinishCountry ==
    /\ mpc = "finish"
    /\ manifest' = [manifest EXCEPT ![Key] = FinishEntry(variant, entry, Key)]
    /\ mpc' = "loop"
    /\ UNCHANGED <<mframe, kidx, entry, mlog, written, summary>>

\* After the loop: fs.writeFileSync(manifestPath, ...).
WriteManifest ==
    /\ mpc = "loop"
    /\ kidx = Len(keys)
    /\ written' = Append(written, [generated |-> Now, countries |-> manifest])
    /\ mpc' = "summary"
    /\ UNCHANGED <<mframe, kidx, entry, manifest, mlog, summary>>

\* fs.writeFileSync throws: main rejects, process.exit(1).
WriteManifestThrows ==
    /\ mpc = "loop"
    /\ kidx = Len(keys)
    /\ mpc' = "crashed"
    /\ UNCHANGED <<mframe, kidx, entry, manifest, mlog, written, summary>>

\* The summary: one line for each entry of manifest.countries.
PrintSummary ==
    /\ mpc = "summary"
    /\ summary' = [c \in {x \in MainCountries : manifest[x].present} |-> SummaryLine(manifest[c])]
    /\ mpc' = "done"
    /\ UNCHANGED <<mframe, kidx, entry, manifest, mlog, written>>

MainNext ==
    \/ NextCountry
    \/ RailwaysOk
    \/ RailwaysThrows
    \/ StationsOk
    \/ StationsThrows
    \/ FinishCountry
    \/ WriteManifest
    \/ WriteManifestThrows
    \/ PrintSummary

SpecMain == InitMain /\ [][MainNext]_vars

(***************************************************************************)
(* Properties of queryOverpass                                             *)
(***************************************************************************)

\* The indices of the trace's events of kind ev.
At(ev) == {a \in 1..Len(trace) : trace[a].ev = ev}

RequestsTo(e) == {a \in At("request") : trace[a].endpoint = e}

\* The first request after event a, or 0 when none follows.
NextRequest(a) ==
    IF \E b \in At("request") : b > a
    THEN CHOOSE b \in At("request") : b > a /\ \A c \in At("request") : c > a => b <= c
    ELSE 0

BaseBackoff == IF variant = "extract" THEN 10000 ELSE 15000

\* C1: one call sends at most MAX_RETRIES (3) requests to each endpoint, visits
\* the endpoints in list order without going back, sends at most 6 requests in
\* all, never throws, can always take a step until it has returned, and returns
\* null when no attempt produced a parsed response.
C1_BoundedFailover ==
    /\ \A e \in 0..(NumEndpoints - 1) : Cardinality(RequestsTo(e)) <= 3
    /\ \A a, b \in At("request") : a < b => trace[a].endpoint <= trace[b].endpoint
    /\ \A a \in At("request") : trace[a].endpoint \in 0..(NumEndpoints - 1)
    /\ Cardinality(At("request")) <= 6
    /\ qpc # "threw"
    /\ (qpc # "done") => ENABLED QueryNext
    /\ (qpc = "done" /\ At("parsed") = {}) => result = "null"
    /\ (qpc # "done") => result = "none"

\* A call that used up every attempt of both endpoints on a mix of failures.
C1_Witness ==
    /\ qpc = "done"
    /\ result = "null"
    /\ Cardinality(RequestsTo(0)) = 3
    /\ Cardinality(RequestsTo(1)) = 3
    /\ \E a \in At("response") : trace[a].num = 429
    /\ \E a \in At("response") : trace[a].num = 404
    /\ \E a \in At("response") : trace[a].num = 500
    /\ \E a \in At("error") : trace[a].str = "AbortError"
    /\ \E a \in At("error") : trace[a].str = "TypeError"
    /\ \E a \in At("error") : trace[a].str = "SyntaxError"

\* C2 (as claimed): after a response with status >= 500 from an endpoint no
\* further request goes to that endpoint, and when every endpoint answers 500 to
\* its first attempt the call sends exactly one request per endpoint and returns null.
C2_ServerErrorAbandonsEndpoint ==
    /\ \A a \in At("response") : trace[a].num >= 500 =>
          \A b \in At("request") : b > a => trace[b].endpoint # trace[a].endpoint
    /\ (/\ qpc = "done"
        /\ \A e \in 0..(NumEndpoints - 1) :
              \E a \in At("response") :
                  /\ trace[a].endpoint = e /\ trace[a].attempt = 0 /\ trace[a].num = 500)
       => (/\ result = "null"
           /\ \A e \in 0..(NumEndpoints - 1) : Cardinality(RequestsTo(e)) = 1)

\* The sleep that follows a 429 to attempt k: baseBackoff * (k + 1).
BackoffFollows(a) ==
    /\ a + 1 <= Len(trace)
    /\ trace[a + 1].ev = "sleep"
    /\ trace[a + 1].num = BaseBackoff * (trace[a].attempt + 1)

\* C3 (as claimed): a 429 to attempt k in 0..2 is followed by a sleep of
\* baseBackoff * (k + 1), and the next request goes to the same endpoint.
C3_RateLimitNeverSwitches ==
    \A a \in At("response") : trace[a].num = 429 =>
        /\ trace[a].attempt \in 0..2
        /\ BackoffFollows(a)
        /\ NextRequest(a) # 0 => trace[NextRequest(a)].endpoint = trace[a].endpoint

\* C3 (amended): the sleep is as claimed for every k in 0..2; the next request
\* goes to the same endpoint for k in 0..1, and after a 429 to attempt 2, the
\* endpoint's last attempt, it goes to the next endpoint (or there is none).
C3_RateLimitBackoff ==
    \A a \in At("response") : trace[a].num = 429 =>
        /\ trace[a].attempt \in 0..2
        /\ BackoffFollows(a)
        /\ NextRequest(a) # 0 =>
              IF trace[a].attempt < 2
              THEN /\ trace[NextRequest(a)].endpoint = trace[a].endpoint
                   /\ trace[NextRequest(a)].attempt = trace[a].attempt + 1
              ELSE /\ trace[NextRequest(a)].endpoint = trace[a].endpoint + 1
                   /\ trace[NextRequest(a)].attempt = 0
        /\ (qpc = "done" /\ NextRequest(a) = 0) =>
              (trace[a].attempt = 2 /\ trace[a].endpoint = NumEndpoints - 1)

\* A 429 to attempt 0 retried on the primary, and a 429 to attempt 2 of the
\* primary followed by a request to the mirror.
C3_Witness ==
    /\ \E a \in At("response") :
          /\ trace[a].num = 429 /\ trace[a].attempt = 0 /\ NextRequest(a) # 0
          /\ trace[NextRequest(a)].endpoint = trace[a].endpoint
    /\ \E a \in At("response") :
          /\ trace[a].num = 429 /\ trace[a].attempt = 2 /\ trace[a].endpoint = 0
          /\ NextRequest(a) # 0
          /\ trace[NextRequest(a)].endpoint = 1

\* C4: once a request got a success status and its body parsed, the call has
\* returned exactly that document: nothing is sent and no sleep is made after
\* it, and a returned document always comes from the last request issued.
C4_SuccessReturnsImmediately ==
    /\ \A a \in At("parsed") :
          /\ a = Len(trace)
          /\ qpc = "done"
          /\ result = trace[a].str
          /\ a >= 3
          /\ trace[a - 1].ev = "response" /\ Ok(trace[a - 1].num)
          /\ trace[a - 2].ev = "request"
          /\ trace[a - 2].endpoint = trace[a].endpoint
          /\ trace[a - 2].attempt = trace[a].attempt
          /\ \A b \in At("request") : b <= a - 2
    /\ result \in JsonDocs => At("parsed") # {}

\* A document returned by the mirror after the primary failed.
C4_Witness ==
    /\ qpc = "done"
    /\ result = "docB"
    /\ trace[Len(trace)].endpoint = 1
    /\ Cardinality(At("request")) >= 3
    /\ At("sleep") # {}

\* Events a and b are the first and the second answer (response or rejection)
\* of the call, and both are responses.
IsFirstTwo(a, b) ==
    /\ a \in At("response") /\ b \in At("response") /\ a < b
    /\ \A c \in At("response") \cup At("error") : c >= a /\ (c < b => c = a)

\* C5: when the primary answers 429 to the first request and 200 with valid
\* JSON to the second, the call returns that JSON after exactly two requests,
\* both to the primary, with one sleep of baseBackoff * 1 between them.
C5_RateLimitedThenOk ==
    \A a, b \in At("response") :
        (/\ IsFirstTwo(a, b)
         /\ trace[a].num = 429
         /\ trace[b].num = 200
         /\ b + 1 \in At("parsed"))
        => /\ trace = << Event("request", 0, 0, 0, ""),
                         Event("response", 0, 0, 429, ""),
                         Event("sleep", 0, 0, BaseBackoff * 1, ""),
                         Event("request", 0, 1, 0, ""),
                         Event("response", 0, 1, 200, ""),
                         Event("parsed", 0, 1, 0, result) >>
           /\ qpc = "done"
           /\ result = trace[b + 1].str
           /\ result \in JsonDocs

C5_Witness ==
    /\ qpc = "done"
    /\ result = "docA"
    /\ Len(trace) = 6
    /\ trace[2] = Event("response", 0, 0, 429, "")
    /\ trace[5] = Event("response", 0, 1, 200, "")

(***************************************************************************)
(* Properties of extractRailways                                           *)
(***************************************************************************)

\* The positions of allWays that hold a segment with this id.
SegmentsWithId(id) == {x \in 1..Len(allWays) : allWays[x].id = id}

\* C6: at every point of the collection, and in the list returned, no two
\* segments have the same id; an id returned twice or more, first with at least
\* 2 geometry points, has exactly one segment.
C6_NoDuplicateIds ==
    /\ \A x, y \in 1..Len(allWays) : x < y => allWays[x].id # allWays[y].id
    /\ \A id \in Ids :
          (returned[id].first = "line" /\ returned[id].n = 2)
          => Cardinality(SegmentsWithId(id)) = 1

\* A country of several tiles is done, and an id that came twice has its one segment.
C6_Witness ==
    /\ rpc = "done"
    /\ Len(tiles) >= 2
    /\ Len(queried) = Len(tiles)
    /\ returned[1].first = "line" /\ returned[1].n = 2
    /\ returned[2].first = "line" /\ returned[2].n = 2
    /\ Len(allWays) = 2

\* C7: a tile for which queryOverpass returns null, or data without elements,
\* does not make the collector throw, is not queried again, leaves the segments
\* collected so far as they are, and every later tile is still queried, in
\* order; the list returned holds the segments of the tiles that returned data.
C7_NullTileSkipped ==
    /\ [](rpc # "threw")
    /\ [](queried = [k \in 1..Len(queried) |-> k - 1])
    /\ [](rpc = "done" => Len(queried) = Len(tiles))
    /\ []({allWays[x].id : x \in 1..Len(allWays)} = {id \in Ids : returned[id].first = "line"})
    /\ [][(queried' # queried /\ tileKind' \in {"null", "noElements"})
            => (allWays' = allWays /\ seenIds' = seenIds)]_vars

\* Tile 1 of at least three returned null between two tiles that returned segments.
C7_Witness ==
    /\ rpc = "done"
    /\ Len(tiles) >= 3
    /\ skipped = {1}
    /\ Len(queried) = Len(tiles)
    /\ Len(allWays) = 2
    /\ returned[1].n = 1
    /\ returned[2].n = 1

(***************************************************************************)
(* Properties of getTiles                                                  *)
(***************************************************************************)

LatSpan(b) == b[3] - b[1]

LonSpan(b) == b[4] - b[2]

\* The first tile is the first cell of a sweep of the box in steps of tileSize.
FirstOfSweep ==
    tiles[1] = <<bbox[1], bbox[2],
                 IF bbox[1] + tileSize < bbox[3] THEN bbox[1] + tileSize ELSE bbox[3],
                 IF bbox[2] + tileSize < bbox[4] THEN bbox[2] + tileSize ELSE bbox[4]>>

\* getTiles returns the box alone when both spans are at most `limit`, and
\* sweeps the grid, which yields at least two tiles, when one span exceeds it.
SingleTileUpTo(limit) ==
    tpc = "returned" =>
        /\ (LatSpan(bbox) <= limit /\ LonSpan(bbox) <= limit) => tiles = <<bbox>>
        /\ (LatSpan(bbox) > limit \/ LonSpan(bbox) > limit) =>
              /\ Len(tiles) >= 2
              /\ FirstOfSweep
        /\ (bbox = <<0, 0, 10, 10>> /\ tileSize = 20) => tiles = << <<0, 0, 10, 10>> >>

\* C8 (as claimed): the limit is the tile size of the grid sweep.
C8_SingleTileWithinTileSize == SingleTileUpTo(tileSize)

\* C8 (amended): the limit is the tile size in part_000, and TILE_THRESHOLD_DEG
\* (15), not TILE_SIZE_DEG (10), in extract.js.
C8_SingleTileWithinLimit == SingleTileUpTo(IF variant = "extract" THEN 15 ELSE tileSize)

\* The box [0,0,10,10] with tile size 20.
C8_Witness ==
    /\ tpc = "returned"
    /\ variant = "part000"
    /\ bbox = <<0, 0, 10, 10>>
    /\ tileSize = 20
    /\ tiles = << <<0, 0, 10, 10>> >>

\* The one-degree cells of the box, each by its south-west corner.
Cells == {<<x, y>> : x \in bbox[1]..(bbox[3] - 1), y \in bbox[2]..(bbox[4] - 1)}

\* The tiles that hold the cell.
TilesOver(c) ==
    {k \in 1..Len(tiles) :
        /\ tiles[k][1] <= c[1] /\ c[1] + 1 <= tiles[k][3]
        /\ tiles[k][2] <= c[2] /\ c[2] + 1 <= tiles[k][4]}

\* The tiles are a grid partition of the box with no gap and no overlap, each
\* tile inside the box and of spans in 1..limit, only the last row and the
\* last column narrower than the tile size.
GridPartition(limit) ==
    tpc = "returned" =>
        /\ \A k \in 1..Len(tiles) :
              /\ bbox[1] <= tiles[k][1] /\ tiles[k][3] <= bbox[3]
              /\ bbox[2] <= tiles[k][2] /\ tiles[k][4] <= bbox[4]
              /\ 0 < LatSpan(tiles[k]) /\ LatSpan(tiles[k]) <= limit
              /\ 0 < LonSpan(tiles[k]) /\ LonSpan(tiles[k]) <= limit
              /\ (LatSpan(tiles[k]) < limit => tiles[k][3] = bbox[3])
              /\ (LonSpan(tiles[k]) < limit => tiles[k][4] = bbox[4])
        /\ \A c \in Cells : Cardinality(TilesOver(c)) = 1

\* C9 (as claimed): every tile has spans of at most the tile size.
C9_PartitionWithinTileSize == GridPartition(tileSize)

\* C9 (amended): as claimed, except that the single tile extract.js returns
\* for a box of spans up to TILE_THRESHOLD_DEG (15) has spans up to 15.
C9_PartitionWithinLimit ==
    GridPartition(IF variant = "extract" /\ Len(tiles) = 1 THEN 15 ELSE tileSize)

\* The box [0,0,10,10] swept in tiles of 6: two rows of two tiles.
C9_Witness ==
    /\ tpc = "returned"
    /\ bbox = <<0, 0, 10, 10>>
    /\ tileSize = 6
    /\ Len(tiles) = 4
    /\ tiles[4] = <<6, 6, 10, 10>>

(***************************************************************************)
(* Properties of extractStations                                           *)
(***************************************************************************)

\* The stations of the list that come from an element of bucket b.
FromBucket(list, b) == {x \in 1..Len(list) : BucketOf(list[x].src) = b}

\* The stations collected so far, and the list returned once there is one.
Collected == MapValues(stationMap)

\* No two stations of the list come from the same 4-decimal bucket.
BucketsDistinct(list) ==
    \A x, y \in 1..Len(list) : x < y => BucketOf(list[x].src) # BucketOf(list[y].src)

\* The station response came with elements, and the list has been returned.
ReturnedFromData == spc = "done" /\ stationCount > 0

\* C10 (as claimed): no two stations come from the same 4-decimal bucket, and
\* two named elements of one bucket yield exactly one station.
C10_OneStationPerBucket ==
    /\ BucketsDistinct(Collected)
    /\ BucketsDistinct(stations)
    /\ \A b \in Buckets : namedFed[b] = 2 =>
          /\ Cardinality(FromBucket(Collected, b)) = 1
          /\ ReturnedFromData => Cardinality(FromBucket(stations, b)) = 1

\* C10 (amended): no two stations come from the same 4-decimal bucket; two
\* named elements of one bucket yield exactly one station if the town filter
\* of extract.js lets one of them through, and none if it drops them all.
C10_AtMostOnePerBucket ==
    /\ BucketsDistinct(Collected)
    /\ BucketsDistinct(stations)
    /\ \A b \in Buckets : namedFed[b] = 2 =>
          LET expected == IF keptFed[b] > 0 THEN 1 ELSE 0
          IN  /\ Cardinality(FromBucket(Collected, b)) = expected
              /\ ReturnedFromData => Cardinality(FromBucket(stations, b)) = expected

\* Two named elements of one bucket and one of another are returned as two stations.
C10_Witness ==
    /\ spc = "done"
    /\ stationCount = 3
    /\ \E b \in Buckets : namedFed[b] = 2
    /\ Len(stations) = 2
    /\ stations[1].src.lat # stations[2].src.lat

\* The station kept for bucket b is the one that comes from element id.
KeptIs(list, b, id) ==
    /\ Cardinality(FromBucket(list, b)) = 1
    /\ \A x \in FromBucket(list, b) : list[x].src.id = id

\* The candidate the tie-break is claimed to keep for a bucket.
Preferred(c) == IF c.firstMatch # 0 THEN c.firstMatch ELSE c.first

\* C11 (as claimed): of the named candidates of one bucket, the station kept is
\* the first-seen one whose name matches the station-word pattern, if any
\* matches, and the first-seen one otherwise.
C11_TieBreakFirstMatching ==
    \A b \in Buckets :
        (cand[b].first # 0 /\ cand[b].tagged) =>
            /\ KeptIs(Collected, b, Preferred(cand[b]))
            /\ ReturnedFromData => KeptIs(stations, b, Preferred(cand[b]))

\* C12 (as claimed): every station collected or returned has a defined name
\* that is not empty.
C12_NamesNonEmpty ==
    /\ \A x \in 1..Len(Collected) : Truthy(Collected[x].name)
    /\ \A x \in 1..Len(stations) : Truthy(stations[x].name)

(***************************************************************************)
(* Properties of main                                                      *)
(***************************************************************************)

Requested == {keys[a] : a \in 1..Len(keys)}

\* C13: every requested country is attempted, in the order requested, whichever
\* of them throw; the manifest is written at most once, only after the last
\* country, and once main has got past the write; as written it has an entry
\* for every requested country, with an error on exactly those that threw.
C13_FailureIsolation ==
    /\ mlog.attempted = SubSeq(keys, 1, kidx)
    /\ mlog.threw \subseteq Requested
    /\ Len(written) <= 1
    /\ mpc \in {"summary", "done"} <=> Len(written) = 1
    /\ mpc = "crashed" => mlog.attempted = keys
    /\ Len(written) = 1 =>
          /\ mlog.attempted = keys
          /\ \A c \in Requested :
                /\ written[1].countries[c].present
                /\ written[1].countries[c].error # "" <=> c \in mlog.threw

\* Two countries were requested, the first threw, the second went through, and
\* the manifest is written.
C13_Witness ==
    /\ mpc = "done"
    /\ Len(keys) = 2
    /\ mlog.threw = {keys[1]}
    /\ written[1].countries[keys[1]].error # ""
    /\ written[1].countries[keys[2]].error = ""
    /\ written[1].countries[keys[2]].meta

\* Every phase the mode asks for wrote its file for country c.
FullySucceeded(c) ==
    /\ c \notin mlog.threw
    /\ RunsRailways(variant, mode) => c \in mlog.railFiles
    /\ RunsStations(variant, mode) => c \in mlog.statFiles

\* C14: in part_000, the entry of a requested country is written with an error
\* exactly if one of its phases threw in this run; an error of an earlier run
\* goes only from a requested country all of whose phases went through; and the
\* summary has the error line, not the success line, exactly for the entries
\* with an error.
C14_ErrorIffThrew ==
    variant = "part000" =>
        /\ Len(written) = 1 =>
              \A c \in MainCountries :
                 LET e == written[1].countries[c]
                 IN  /\ c \in Requested => (e.error # "" <=> c \in mlog.threw)
                     /\ (prev[c].error # "" /\ e.error = "")
                           => (c \in Requested /\ FullySucceeded(c))
                     /\ c \notin Requested => e.error = prev[c].error
        /\ mpc = "done" =>
              /\ DOMAIN summary = {c \in MainCountries : written[1].countries[c].present}
              /\ \A c \in DOMAIN summary :
                    summary[c] = "error" <=> written[1].countries[c].error # ""

\* An earlier error is cleared for the first country, which went through, and
\* kept company by a new one for the second, which threw.
C14_Witness ==
    /\ variant = "part000"
    /\ mpc = "done"
    /\ Len(keys) = 2
    /\ prev[keys[1]].error # ""
    /\ written[1].countries[keys[1]].error = ""
    /\ mlog.threw = {keys[2]}
    /\ summary[keys[1]] = "success"
    /\ summary[keys[2]] = "error"

RailFields(e) == <<e.railwaySegments, e.railwayFileKB, e.railwaysExtracted>>

StationFields(e) == <<e.stations, e.stationFileKB, e.stationsExtracted>>

\* The manifest as it stands, and as written if it has been.
Manifests == {manifest} \cup {written[a].countries : a \in 1..Len(written)}

\* C15: in part_000, mode 'stations' never calls extractRailways, writes no
\* railway file and leaves the railway fields of every entry as read; mode
\* 'railways' does the same for the stations; the entries of countries not
\* requested are as read.
C15_ModeFrame ==
    variant = "part000" =>
        /\ mode = "stations" =>
              /\ mlog.railCalls = {}
              /\ mlog.railFiles = {}
              /\ \A m \in Manifests, c \in MainCountries : RailFields(m[c]) = RailFields(prev[c])
        /\ mode = "railways" =>
              /\ mlog.stationCalls = {}
              /\ mlog.statFiles = {}
              /\ \A m \in Manifests, c \in MainCountries :
                    StationFields(m[c]) = StationFields(prev[c])
        /\ \A m \in Manifests, c \in MainCountries \ Requested : m[c] = prev[c]

\* A run in mode 'stations' over a country whose entry had railway fields has
\* written the manifest with new station fields, next to an entry not requested.
C15_Witness ==
    /\ variant = "part000"
    /\ mode = "stations"
    /\ mpc = "done"
    /\ Len(keys) = 1
    /\ prev[keys[1]].railwaySegments = 3
    /\ written[1].countries[keys[1]].stationsExtracted = Now
    /\ written[1].countries[keys[1]].stations = 0
    /\ prev["iran"].present

(***************************************************************************)
(* Properties of the delays                                                *)
(***************************************************************************)

\* The tile indices 0 .. n-1, in order.
UpTo(n) == [a \in 1..n |-> a - 1]

\* C16 (as claimed): exactly one inter-tile sleep of the fixed delay lies
\* between the query of each tile and that of the next, whether the tile
\* returned data or not, and none follows the last tile.
C16_OneSleepBetweenTiles ==
    /\ rpc = "sleep" => sleepMs = InterTileDelay(variant)
    /\ rpc = "query" => slept = UpTo(i)
    /\ rpc = "elements" => slept = UpTo(i)
    /\ rpc = "sleep" => slept = UpTo(i + 1)
    /\ rpc = "done" => slept = UpTo(Len(tiles) - 1)

\* The attempts that failed with a status that is not ok, not 429 and below
\* 500, or with a transport error or the abort timer.
SoftFailures ==
    {a \in At("response") : ~Ok(trace[a].num) /\ trace[a].num # 429 /\ trace[a].num < 500}
    \cup {a \in At("error") : trace[a].str \in RejectNames}

\* A sleep lies between events a and b.
SleepBetween(a, b) == \E c \in At("sleep") : a < c /\ c < b /\ trace[c].num > 0

\* C17 (as claimed): when another attempt on the same endpoint follows such a
\* failure, a sleep lies between the two; after such a failure of an endpoint's
\* last attempt the next request goes to the next endpoint.
C17_DelayBeforeRetry ==
    \A a \in SoftFailures :
        NextRequest(a) # 0 =>
            /\ trace[NextRequest(a)].endpoint = trace[a].endpoint => SleepBetween(a, NextRequest(a))
            /\ trace[a].attempt = MAX_RETRIES - 1
                  => trace[NextRequest(a)].endpoint = trace[a].endpoint + 1

\* C18 (as claimed): while an attempt is pending, whether it waits for the
\* response or reads its body, its abort timer is armed.
C18_TimerCoversAttempt == qpc \in {"await", "body"} => timer = "armed"

\* The towns with a name that lie within 5 km of the point.
NamedNear(lat) ==
    {k \in 1..Len(towns) :
        Truthy(towns[k].name) /\ (Abs(lat - towns[k].lat) * 1112) \div 10000 < 5000}

\* The name the claim gives an element without a name of its own: that of the
\* nearest of those towns with " Station", and "" (dropped) when there is none.
ClaimedName(lat) ==
    IF NamedNear(lat) = {} THEN ""
    ELSE StationOf(towns[CHOOSE k \in NamedNear(lat) :
                            \A j \in NamedNear(lat) :
                                Abs(lat - towns[k].lat) <= Abs(lat - towns[j].lat)].name)

\* A town lies within 10 km of the point.
TownWithin10(lat) ==
    \E k \in 1..Len(towns) : (Abs(lat - towns[k].lat) * 1112) \div 10000 <= 10000

\* The stations collected and those returned.
AllStations == {Collected[x] : x \in 1..Len(Collected)} \cup {stations[x] : x \in 1..Len(stations)}

\* C19 (as claimed): in extract.js no station comes from a building=train_station
\* element unless a town lies within 10 km of it, also when there are no towns.
C19_BuildingsNeedTown ==
    variant = "extract" =>
        \A st \in AllStations : st.src.building = "train_station" => TownWithin10(st.src.lat)

\* C19 (amended): in extract.js a station comes from a building=train_station
\* element only if a town lies within 10 km of it or there are no towns at all.
C19_BuildingsNeedTownIfAny ==
    variant = "extract" =>
        \A st \in AllStations :
            st.src.building = "train_station" => (towns = <<>> \/ TownWithin10(st.src.lat))

\* Towns came, one of them within 10 km, and a station from a building is returned.
C19_Witness ==
    /\ variant = "extract"
    /\ spc = "done"
    /\ towns # <<>>
    /\ \E x \in 1..Len(stations) :
          stations[x].src.building = "train_station" /\ TownWithin10(stations[x].src.lat)

\* C20 (as claimed): in extract.js an element without a name of its own is
\* stored as '<T> Station' for the nearest named town T within 5 km, and
\* dropped only if there is no named town within 5 km.
C20_NearestNamedTown ==
    (variant = "extract" /\ lastUnnamed.id # 0) => lastUnnamed.name = ClaimedName(lastUnnamed.lat)

(***************************************************************************)
(* Properties of the order of the tiles                                    *)
(***************************************************************************)

\* Tile x comes before tile y in row-major order.
RowMajorBefore(x, y) == x[1] < y[1] \/ (x[1] = y[1] /\ x[2] < y[2])

\* C21: part_000 getTiles returns the tiles in row-major order, by ascending
\* south bound and, for equal south bounds, ascending west bound; for the box
\* [0,0,10,10] and tile size 6 these are the four tiles of the scenario.
C21_RowMajorOrder ==
    (variant = "part000" /\ tpc = "returned") =>
        /\ \A a, b \in 1..Len(tiles) : a < b => RowMajorBefore(tiles[a], tiles[b])
        /\ (bbox = <<0, 0, 10, 10>> /\ tileSize = 6)
              => tiles = << <<0, 0, 6, 6>>, <<0, 6, 6, 10>>, <<6, 0, 10, 6>>, <<6, 6, 10, 10>> >>

\* The call of the scenario has returned its four tiles.
C21_Witness ==
    /\ variant = "part000"
    /\ tpc = "returned"
    /\ bbox = <<0, 0, 10, 10>>
    /\ tileSize = 6
    /\ Len(tiles) = 4
    /\ tiles[2] = <<0, 6, 6, 10>>

(***************************************************************************)
(* Properties of the order of the id check and the geometry check          *)
(***************************************************************************)

\* The ids of the segments collected.
EmittedIds == {allWays[x].id : x \in 1..Len(allWays)}

\* C23: an id is recorded as seen before its geometry is looked at, so the
\* segments collected are those of the ids whose first occurrence, over the
\* tiles that returned elements in tile order and within-tile order, had at
\* least 2 geometry points; an id whose first occurrence was degenerate has no
\* segment although it came again with valid geometry.  Every segment has at
\* least 2 points and there are no more segments than seen ids.
C23_FirstOccurrenceDecides ==
    /\ EmittedIds = {a \in Ids : returned[a].first = "line"}
    /\ seenIds = {a \in Ids : returned[a].first # "none"}
    /\ \A a \in Ids :
          (returned[a].first = "degenerate" /\ returned[a].later) => a \notin EmittedIds
    /\ \A x \in 1..Len(allWays) : Len(allWays[x].geometry) >= 2
    /\ Len(allWays) <= Cardinality(seenIds)

\* The collection is done; one id came first degenerate and later with valid
\* geometry and has no segment, another came first with valid geometry and has one.
C23_Witness ==
    /\ rpc = "done"
    /\ \E a, b \in Ids :
          /\ returned[a].first = "degenerate" /\ returned[a].later
          /\ a \in seenIds /\ a \notin EmittedIds
          /\ returned[b].first = "line" /\ b \in EmittedIds

(***************************************************************************)
(* Properties of the scope of the seen ids                                 *)
(***************************************************************************)

\* C22: within one extractRailways call the set of seen ids only grows; the
\* call for the next country starts with no seen id, so an id that an earlier
\* country's call returned a segment for, and that comes for the later country
\* with at least 2 geometry points, has a segment in the later country's
\* output as well.
C22_SeenIdsPerCall ==
    /\ [][rpc # "done" => seenIds \subseteq seenIds']_vars
    /\ [][rpc = "done" => seenIds' = {}]_vars
    /\ [](call = "later" =>
            \A a \in emitted : returned[a].first = "line" => a \in EmittedIds)

\* A later country's call is done, and an id that an earlier call returned a
\* segment for came with 2 points and has a segment again.
C22_Witness ==
    /\ call = "later"
    /\ rpc = "done"
    /\ \E a \in emitted : returned[a].first = "line" /\ a \in EmittedIds /\ a \in seenIds

====
